---------------------------- MODULE Spec2Model ----------------------------
(***************************************************************************)
(* A model of airflow/providers/apache/livy/hooks/livy.py: the LivyHook    *)
(* batch client (validators, request builder, run_method, the batch        *)
(* operations and the paginated log dump).                                 *)
(*                                                                         *)
(* Python values are tagged records [t |-> type, v |-> payload]; a str is  *)
(* a sequence of one-character strings, so that int(), str() and the size  *)
(* pattern are computed character by character.                            *)
(***************************************************************************)
EXTENDS Integers, Sequences, FiniteSets, TLC

VARIABLES
    method,          \* self.method, the HttpHook's shared HTTP verb
    extra_options,   \* self.extra_options, a dict (function from keys)
    op,              \* the hook method being called, "none" when idle
    pc,              \* position inside the call
    session_id,      \* the call's session_id argument
    kwargs,          \* the call's build_post_batch_body arguments
    verb,            \* the method argument handed to run_method
    retry_args,      \* whether a retry policy was handed to run_method
    back_method,     \* run_method's local back_method
    outcome,         \* how the call ended: a return value or a raised error
    requests,        \* HTTP requests issued by the underlying HttpHook in this call
    last_response,   \* the last response run_method returned in this call
    entry_method,    \* self.method when the call was entered
    entry_options,   \* self.extra_options when the call was entered
    log_start_line,  \* dump_batch_logs' local
    log_total_lines, \* dump_batch_logs' local
    log_lines,       \* lines of the current page not yet handed to self.log.info
    sink,            \* lines handed to self.log.info by dump_batch_logs' loop
    pages            \* the pages get_batch_logs returned to dump_batch_logs

vars == <<method, extra_options, op, pc, session_id, kwargs, verb, retry_args,
          back_method, outcome, requests, last_response, entry_method, entry_options,
          log_start_line, log_total_lines, log_lines, sink, pages>>

hookVars == <<method, extra_options>>
dumpVars == <<log_start_line, log_total_lines, log_lines, sink, pages>>

(***************************************************************************)
(* Bounds of the model.                                                    *)
(***************************************************************************)
MaxIdLen == 2          \* longest str handed in as a session id
MaxSetFields == 2      \* optional build_post_batch_body arguments that are not None
MaxTotalUnits == 5     \* the server reports totals 0, 50, ..., 50 * MaxTotalUnits
MaxLogLen == 2         \* most lines in one page's "log" array
MaxAttempts == 2       \* requests one run_with_advanced_retry call may issue

(***************************************************************************)
(* Python values.                                                          *)
(***************************************************************************)
None == [t |-> "none"]
PyInt(n) == [t |-> "int", v |-> n]
PyStr(s) == [t |-> "str", v |-> s]
PyFloat(tenths) == [t |-> "float", v |-> tenths]
PyNan == [t |-> "nan"]
PyInf == [t |-> "inf"]
PyList(items) == [t |-> "list", v |-> items]
PyDict(items) == [t |-> "dict", v |-> items]
EmptyDict == [k \in {} |-> None]

Digits == {"0", "1", "2", "3", "4", "5", "6", "7", "8", "9"}
Whitespace == {" "}

\* bool(x)
Truthy(x) ==
    CASE x.t = "none" -> FALSE
      [] x.t = "int" -> x.v # 0
      [] x.t = "float" -> x.v # 0
      [] x.t \in {"nan", "inf"} -> TRUE
      [] x.t \in {"str", "list"} -> Len(x.v) > 0
      [] x.t = "dict" -> Len(x.v) > 0

RECURSIVE LStrip(_)
LStrip(s) == IF s # <<>> /\ Head(s) \in Whitespace THEN LStrip(Tail(s)) ELSE s

RECURSIVE RStrip(_)
RStrip(s) ==
    IF s # <<>> /\ s[Len(s)] \in Whitespace THEN RStrip(SubSeq(s, 1, Len(s) - 1)) ELSE s

\* digit (["_"] digit)*
RECURSIVE IsDigitPart(_)
IsDigitPart(s) ==
    /\ s # <<>>
    /\ Head(s) \in Digits
    /\ \/ Len(s) = 1
       \/ IsDigitPart(Tail(s))
       \/ Len(s) >= 3 /\ s[2] = "_" /\ IsDigitPart(SubSeq(s, 3, Len(s)))

\* The strings int() accepts in base 10: whitespace, an optional sign, digits
\* with single underscores between them, whitespace.
IsIntLiteral(s) ==
    LET body == RStrip(LStrip(s))
        unsigned == IF body # <<>> /\ Head(body) \in {"+", "-"} THEN Tail(body) ELSE body
    IN IsDigitPart(unsigned)

\* int(x): "ok", or the exception it raises
IntOf(x) ==
    CASE x.t \in {"int", "float"} -> "ok"
      [] x.t = "nan" -> "ValueError"
      [] x.t = "inf" -> "OverflowError"
      [] x.t = "str" -> IF IsIntLiteral(x.v) THEN "ok" ELSE "ValueError"
      [] OTHER -> "TypeError"

\* _validate_session_id: "ok", or the exception that leaves it
ValidateSessionId(x) ==
    IF IntOf(x) \in {"TypeError", "ValueError"} THEN "TypeError" ELSE IntOf(x)

(***************************************************************************)
(* Validators of the request builder.                                      *)
(***************************************************************************)
UnitLetters == {"k", "m", "g", "t", "K", "M", "G", "T"}

RECURSIVE DropDigits(_)
DropDigits(s) == IF s # <<>> /\ Head(s) \in Digits THEN DropDigits(Tail(s)) ELSE s

\* re.match(r"^\d+[kmgt]b?$", size, re.IGNORECASE); $ also matches before a
\* trailing newline
SizeMatches(s) ==
    LET body == IF s # <<>> /\ s[Len(s)] = "\n" THEN SubSeq(s, 1, Len(s) - 1) ELSE s
        rest == DropDigits(body)
    IN /\ Len(rest) < Len(body)
       /\ Len(rest) \in {1, 2}
       /\ rest[1] \in UnitLetters
       /\ Len(rest) = 2 => rest[2] \in {"b", "B"}

\* _validate_size_format: TRUE when it returns True, FALSE when it raises ValueError
ValidateSizeFormat(size) ==
    ~(Truthy(size) /\ ~(size.t = "str" /\ SizeMatches(size.v)))

\* _validate_list_of_stringables: TRUE when it returns True, FALSE when it raises
ValidateListOfStringables(vals) ==
    ~(\/ vals.t = "none"
      \/ vals.t # "list"
      \/ \E i \in 1..Len(vals.v) : vals.v[i].t \notin {"str", "int", "float", "nan", "inf"})

\* _validate_extra_conf: TRUE when it returns True, FALSE when it raises
ValidateExtraConf(conf) ==
    IF Truthy(conf)
    THEN /\ conf.t = "dict"
         /\ ~\E i \in 1..Len(conf.v) :
                LET v == conf.v[i][2]
                IN ~((Truthy(v) /\ v.t = "str") \/ v.t = "int")
    ELSE TRUE

RECURSIVE NatToChars(_)
NatToChars(n) ==
    LET d == <<"0", "1", "2", "3", "4", "5", "6", "7", "8", "9">>[(n % 10) + 1]
    IN IF n < 10 THEN <<d>> ELSE NatToChars(n \div 10) \o <<d>>

IntToChars(n) == IF n < 0 THEN <<"-">> \o NatToChars(-n) ELSE NatToChars(n)

\* str(val) of an element of args
StrOf(x) ==
    CASE x.t = "str" -> x
      [] x.t = "int" -> PyStr(IntToChars(x.v))
      [] x.t = "float" ->
            PyStr((IF x.v < 0 THEN <<"-">> ELSE <<>>)
                  \o NatToChars((IF x.v < 0 THEN -x.v ELSE x.v) \div 10)
                  \o <<".">> \o NatToChars((IF x.v < 0 THEN -x.v ELSE x.v) % 10))
      [] x.t = "nan" -> PyStr(<<"n", "a", "n">>)
      [] x.t = "inf" -> PyStr(<<"i", "n", "f">>)
      [] x.t = "none" -> PyStr(<<"N", "o", "n", "e">>)
      [] OTHER -> PyStr(<<"?">>)

\* [str(val) for val in args]
StrEach(args) ==
    IF args.t = "list" THEN PyList([i \in 1..Len(args.v) |-> StrOf(args.v[i])]) ELSE args

(***************************************************************************)
(* build_post_batch_body.  A result is [raised, body]: raised when a       *)
(* validator raised ValueError, body the dict built so far.                *)
(***************************************************************************)
\* The mutant of IfSet: the guard is "is not None" instead of truthiness.
IfSetNotNone(r, key, val, valid, out) ==
    IF r.raised \/ val.t = "none" THEN r
    ELSE IF ~valid THEN [r EXCEPT !.raised = TRUE]
    ELSE [r EXCEPT !.body = (key :> out) @@ r.body]

\* One "if val [and validate(val)]: body[key] = out" statement of the builder
IfSet(r, key, val, valid, out) ==
    IF r.raised \/ ~Truthy(val) THEN r
    ELSE IF ~valid THEN [r EXCEPT !.raised = TRUE]
    ELSE [r EXCEPT !.body = (key :> out) @@ r.body]

BuildPostBatchBody(kw) ==
    LET b0 == [raised |-> FALSE, body |-> ("file" :> kw.file)]
        b1 == IfSet(b0, "proxyUser", kw.proxy_user, TRUE, kw.proxy_user)
        b2 == IfSet(b1, "className", kw.class_name, TRUE, kw.class_name)
        b3 == IfSet(b2, "args", kw.args, ValidateListOfStringables(kw.args), StrEach(kw.args))
        b4 == IfSet(b3, "jars", kw.jars, ValidateListOfStringables(kw.jars), kw.jars)
        b5 == IfSet(b4, "pyFiles", kw.py_files, ValidateListOfStringables(kw.py_files), kw.py_files)
        b6 == IfSet(b5, "files", kw.files, ValidateListOfStringables(kw.files), kw.files)
        b7 == IfSet(b6, "driverMemory", kw.driver_memory, ValidateSizeFormat(kw.driver_memory), kw.driver_memory)
        b8 == IfSet(b7, "driverCores", kw.driver_cores, TRUE, kw.driver_cores)
        b9 == IfSet(b8, "executorMemory", kw.executor_memory, ValidateSizeFormat(kw.executor_memory), kw.executor_memory)
        b10 == IfSet(b9, "executorCores", kw.executor_cores, TRUE, kw.executor_cores)
        b11 == IfSet(b10, "numExecutors", kw.num_executors, TRUE, kw.num_executors)
        b12 == IfSet(b11, "archives", kw.archives, ValidateListOfStringables(kw.archives), kw.archives)
        b13 == IfSet(b12, "queue", kw.queue, TRUE, kw.queue)
        b14 == IfSet(b13, "name", kw.name, TRUE, kw.name)
        b15 == IfSet(b14, "conf", kw.conf, ValidateExtraConf(kw.conf), kw.conf)
    IN b15

\* The optional parameters of build_post_batch_body and their wire keys
OptionalParams ==
    {"proxy_user", "class_name", "args", "jars", "py_files", "files", "driver_memory",
     "driver_cores", "executor_memory", "executor_cores", "num_executors", "archives",
     "queue", "name", "conf"}

WireKey(p) ==
    CASE p = "proxy_user" -> "proxyUser"
      [] p = "class_name" -> "className"
      [] p = "py_files" -> "pyFiles"
      [] p = "driver_memory" -> "driverMemory"
      [] p = "driver_cores" -> "driverCores"
      [] p = "executor_memory" -> "executorMemory"
      [] p = "executor_cores" -> "executorCores"
      [] p = "num_executors" -> "numExecutors"
      [] OTHER -> p

(***************************************************************************)
(* Inputs of the builder: every optional parameter defaults to None, and   *)
(* at most MaxSetFields of them are given.                                 *)
(***************************************************************************)
Candidates(p) ==
    CASE p \in {"proxy_user", "class_name", "queue", "name"} ->
            <<PyStr(<<>>), PyStr(<<"x">>), PyStr(<<"x", "y">>), PyInt(0)>>
      [] p \in {"driver_cores", "executor_cores", "num_executors"} ->
            <<PyInt(0), PyInt(2), PyStr(<<"0">>), PyStr(<<>>)>>
      [] p \in {"args", "jars", "py_files", "files", "archives"} ->
            <<PyList(<<>>), PyList(<<PyStr(<<"a">>)>>), PyList(<<PyInt(1), PyFloat(25)>>),
              PyList(<<None>>)>>
      [] p \in {"driver_memory", "executor_memory"} ->
            <<PyStr(<<>>), PyStr(<<"2", "g">>), PyStr(<<"1", "0", "G", "b">>),
              PyStr(<<"2", "x">>)>>
      [] p = "conf" ->
            <<PyDict(<<>>), PyDict(<<<<"k", PyStr(<<"v">>)>>>>), PyDict(<<<<"k", PyInt(0)>>>>),
              PyDict(<<<<"k", PyStr(<<>>)>>>>)>>

Files == {PyStr(<<"f">>), PyStr(<<>>)}

\* The arguments with the parameters in given set to the candidates chosen
KwargsOf(given, choice, file) ==
    [p \in OptionalParams \cup {"file"} |->
        IF p = "file" THEN file
        ELSE IF p \in given THEN Candidates(p)[choice[p]]
        ELSE None]

OnlyFile(file) == KwargsOf({}, <<>>, file)

NoKwargs == OnlyFile(None)
NoOutcome == [kind |-> "none"]
Returned(value) == [kind |-> "return", value |-> value]
Raised(error) == [kind |-> "raise", error |-> error]
NoResponse == [status |-> 0, body |-> EmptyDict]

(***************************************************************************)
(* The pure functions, applied to inputs drawn at Init.                    *)
(***************************************************************************)
\* The hook after __init__, idle, with the inputs of the calls to come
InitWith(ids, kws, methods, options) ==
    /\ session_id \in ids
    /\ kwargs \in kws
    /\ method \in methods
    /\ extra_options \in options
    /\ op = "none"
    /\ pc = "idle"
    /\ verb = "GET"
    /\ retry_args = FALSE
    /\ back_method = method
    /\ outcome = NoOutcome
    /\ requests = <<>>
    /\ last_response = NoResponse
    /\ entry_method = method
    /\ entry_options = extra_options
    /\ log_start_line = 0
    /\ log_total_lines = 0
    /\ log_lines = <<>>
    /\ sink = <<>>
    /\ pages = <<>>

InitBuild ==
    \E given \in SUBSET OptionalParams :
        /\ Cardinality(given) <= MaxSetFields
        /\ \E choice \in [given -> 1..4], file \in Files :
               InitWith({None}, {KwargsOf(given, choice, file)}, {"POST"}, {EmptyDict})

\* A call of LivyHook.build_post_batch_body(**kwargs)
CallBuildPostBatchBody ==
    /\ pc = "idle"
    /\ op' = "build_post_batch_body"
    /\ pc' = "done"
    /\ outcome' = LET r == BuildPostBatchBody(kwargs)
                  IN IF r.raised THEN Raised("ValueError") ELSE Returned(r.body)
    /\ UNCHANGED <<hookVars, dumpVars, session_id, kwargs, verb, retry_args, back_method,
                   requests, last_response, entry_method, entry_options>>

SpecBuild == InitBuild /\ [][CallBuildPostBatchBody]_vars

\* C9: whenever build_post_batch_body returns, the payload holds "file" with
\* the file given and, for each optional parameter, holds its wire key if and
\* only if the value given is truthy; with file alone the payload is exactly
\* {"file": file}.
C9_OnlyTruthyFieldsIncluded ==
    (op = "build_post_batch_body" /\ outcome.kind = "return") =>
        /\ "file" \in DOMAIN outcome.value
        /\ outcome.value["file"] = kwargs.file
        /\ \A p \in OptionalParams :
              (WireKey(p) \in DOMAIN outcome.value) <=> Truthy(kwargs[p])
        /\ DOMAIN outcome.value \subseteq {"file"} \cup {WireKey(p) : p \in OptionalParams}
        /\ (\A p \in OptionalParams : kwargs[p] = None) =>
              outcome.value = ("file" :> kwargs.file)

\* C9's case: it returned with an empty jars list given, beside a truthy field
C9_Witness ==
    /\ op = "build_post_batch_body"
    /\ outcome.kind = "return"
    /\ kwargs.jars = PyList(<<>>)
    /\ \E p \in OptionalParams : Truthy(kwargs[p])


(***************************************************************************)
(* _validate_session_id applied to session ids of every type.              *)
(***************************************************************************)
IdAlphabet == {"7", "0", "-", "x", " ", ".", "_"}

IdStrings == UNION {[1..n -> IdAlphabet] : n \in 0..MaxIdLen}

AllSessionIds ==
    {PyInt(-1), PyInt(0), PyInt(7), PyFloat(35), PyNan, PyInf, None, PyList(<<>>)}
        \cup {PyStr(s) : s \in IdStrings}

InitValidate == InitWith(AllSessionIds, {NoKwargs}, {"POST"}, {EmptyDict})

\* A call of LivyHook._validate_session_id(session_id)
CallValidateSessionId ==
    /\ pc = "idle"
    /\ op' = "_validate_session_id"
    /\ pc' = "done"
    /\ outcome' = IF ValidateSessionId(session_id) = "ok"
                  THEN Returned(None)
                  ELSE Raised(ValidateSessionId(session_id))
    /\ UNCHANGED <<hookVars, dumpVars, session_id, kwargs, verb, retry_args, back_method,
                   requests, last_response, entry_method, entry_options>>

SpecValidate == InitValidate /\ [][CallValidateSessionId]_vars

\* An integer, or a str that parses as an integer
IsIntegerOrNumericString(x) == x.t = "int" \/ (x.t = "str" /\ IsIntLiteral(x.v))

\* C6: _validate_session_id returns for an integer and for a numeric string,
\* and raises for every other value (a fractional float among them).
C6_PassesExactlyIntegers ==
    (op = "_validate_session_id" /\ pc = "done") =>
        (outcome.kind = "return" <=> IsIntegerOrNumericString(session_id))

(***************************************************************************)
(* The hook's calls.  HttpHook.run and run_with_advanced_retry are the     *)
(* injected transport: a request ends with a response of any status, or    *)
(* with an exception of the transport.                                     *)
(***************************************************************************)
log_batch_size == 100

ValidMethods == {"GET", "POST", "PUT", "DELETE", "HEAD"}
Verbs == ValidMethods \cup {"PATCH"}
OptionSets ==
    {EmptyDict, "check_response" :> FALSE, "check_response" :> TRUE, "verify" :> FALSE}
SomeIds == {PyInt(7), PyStr(<<"7">>), PyStr(<<"x">>), None}
DumpIds == {PyStr(<<"7">>), PyStr(<<"x">>), None}
PostInputs ==
    {OnlyFile(PyStr(<<"f">>)),
     [OnlyFile(PyStr(<<"f">>)) EXCEPT !["jars"] = PyList(<<None>>)],
     [OnlyFile(PyStr(<<"f">>)) EXCEPT !["driver_memory"] = PyStr(<<"2", "g">>)]}

BatchStates ==
    {"not_started", "starting", "running", "idle", "busy", "shutting_down", "error",
     "dead", "killed", "success"}

Statuses == {200, 404}
Totals == {50 * k : k \in 0..MaxTotalUnits}

\* The JSON bodies the server may send for a call
Bodies(o, from) ==
    CASE o = "get_batch_state" ->
            {EmptyDict, "state" :> "running", "state" :> "success", "state" :> "bogus"}
      [] o = "post_batch" ->
            {EmptyDict, "id" :> PyInt(0), "id" :> PyInt(5), "id" :> None}
      [] o \in {"get_batch_logs", "dump_batch_logs"} ->
            {[total |-> t, log |-> [i \in 1..n |-> <<from, i>>]] :
                t \in Totals, n \in 0..MaxLogLen}
      [] OTHER -> {EmptyDict, "id" :> PyInt(5)}

\* response.raise_for_status() raises HTTPError
IsHttpError(response) == response.status >= 400

\* dict.get(key): None when the key is absent
DictGet(d, key) == IF key \in DOMAIN d THEN d[key] ELSE None

\* The mutant of DefaultedOptions: the default replaces whatever was given.
DefaultedOptionsAlways(options) == "check_response" :> FALSE

\* run_method: "if not self.extra_options: self.extra_options = {...}"
DefaultedOptions(options) ==
    IF DOMAIN options = {} THEN "check_response" :> FALSE ELSE options

\* The mutant of MethodAfterRun: the restore is not in a finally clause.
MethodAfterRunNoFinally(back, current, raised) == IF raised THEN current ELSE back

\* run_method: "finally: self.method = back_method"
MethodAfterRun(back, current, raised) == back

\* run_method up to the underlying request: the method check, the option
\* default, the override of self.method, and the request going out
RunMethodEnter(endpoint, m, data) ==
    IF m \notin ValidMethods
    THEN /\ pc' = "done"
         /\ outcome' = Raised("ValueError")
         /\ UNCHANGED <<hookVars, back_method, requests>>
    ELSE /\ extra_options' = DefaultedOptions(extra_options)
         /\ back_method' = method
         /\ method' = m
         /\ requests' = Append(requests, [method |-> m, endpoint |-> endpoint, data |-> data])
         /\ pc' = "request"
         /\ outcome' = NoOutcome

Enter(o) ==
    /\ pc = "idle"
    /\ op' = o
    /\ last_response' = NoResponse
    /\ entry_method' = method
    /\ entry_options' = extra_options

\* A direct call of run_method(endpoint, method, retry_args=...)
CallRunMethod ==
    \E m \in Verbs, r \in BOOLEAN :
        /\ Enter("run_method")
        /\ verb' = m
        /\ retry_args' = r
        /\ RunMethodEnter([path |-> "/batches"], m, None)
        /\ UNCHANGED <<dumpVars, session_id, kwargs>>

\* post_batch up to the request (get_conn, which only fills in base_url, is
\* left out: it issues no request)
CallPostBatch ==
    \E kw \in PostInputs :
        /\ Enter("post_batch")
        /\ kwargs' = kw
        /\ verb' = "POST"
        /\ retry_args' = FALSE
        /\ IF BuildPostBatchBody(kw).raised
           THEN /\ pc' = "done"
                /\ outcome' = Raised("ValueError")
                /\ UNCHANGED <<hookVars, back_method, requests>>
           ELSE RunMethodEnter([path |-> "/batches"], "POST", BuildPostBatchBody(kw).body)
        /\ UNCHANGED <<dumpVars, session_id>>

\* A session operation up to the request: the id is validated, then embedded
SessionCall(id, path, m, retry, data) ==
    /\ session_id' = id
    /\ verb' = m
    /\ retry_args' = retry
    /\ IF ValidateSessionId(id) # "ok"
       THEN /\ pc' = "done"
            /\ outcome' = Raised(ValidateSessionId(id))
            /\ UNCHANGED <<hookVars, back_method, requests>>
       ELSE RunMethodEnter([path |-> path, id |-> id], m, data)

CallGetBatch ==
    \E id \in SomeIds :
        /\ Enter("get_batch")
        /\ SessionCall(id, "/batches/{session_id}", "GET", FALSE, None)
        /\ UNCHANGED <<dumpVars, kwargs>>

CallGetBatchState ==
    \E id \in SomeIds, r \in BOOLEAN :
        /\ Enter("get_batch_state")
        /\ SessionCall(id, "/batches/{session_id}/state", "GET", r, None)
        /\ UNCHANGED <<dumpVars, kwargs>>

CallDeleteBatch ==
    \E id \in SomeIds :
        /\ Enter("delete_batch")
        /\ SessionCall(id, "/batches/{session_id}", "DELETE", FALSE, None)
        /\ UNCHANGED <<dumpVars, kwargs>>

\* The mutant of GetBatchLogsEnter: the id is embedded without being validated.
GetBatchLogsEnterUnvalidated(id, log_start_position, size) ==
    /\ session_id' = id
    /\ verb' = "GET"
    /\ retry_args' = FALSE
    /\ RunMethodEnter([path |-> "/batches/{session_id}/log", id |-> id], "GET",
                      [from |-> log_start_position, size |-> size])

\* get_batch_logs up to the request
GetBatchLogsEnter(id, log_start_position, size) ==
    SessionCall(id, "/batches/{session_id}/log", "GET", FALSE,
                [from |-> log_start_position, size |-> size])

CallGetBatchLogs ==
    \E id \in SomeIds, from \in {0, log_batch_size} :
        /\ Enter("get_batch_logs")
        /\ GetBatchLogsEnter(id, from, log_batch_size)
        /\ UNCHANGED <<dumpVars, kwargs>>


\* dump_batch_logs up to its loop
CallDumpBatchLogs ==
    \E id \in DumpIds :
        /\ Enter("dump_batch_logs")
        /\ session_id' = id
        /\ log_start_line' = 0
        /\ log_total_lines' = 0
        /\ log_lines' = <<>>
        /\ sink' = <<>>
        /\ pages' = <<>>
        /\ pc' = "loop"
        /\ UNCHANGED <<hookVars, kwargs, verb, retry_args, back_method, outcome, requests>>

\* The mutant of LoopContinues: the test is strict.
LoopContinuesStrict(start, total) == start < total

\* dump_batch_logs: "while log_start_line <= log_total_lines"
LoopContinues(start, total) == start <= total

\* The mutant of NextStartLine: the offset advances by one line, not one page.
NextStartLineByOne(start) == start + 1

\* dump_batch_logs: "log_start_line += log_batch_size"
NextStartLine(start) == start + log_batch_size

\* _parse_request_response(response, parameter)
ParseRequestResponse(response, parameter) == DictGet(response, parameter)

\* The mutant of PageLines: the loop starts at the page's second line.
PageLinesSkipFirst(response) ==
    IF ParseRequestResponse(response, "log") = <<>> THEN <<>>
    ELSE Tail(ParseRequestResponse(response, "log"))

\* dump_batch_logs: the lines its for loop goes through
PageLines(response) == ParseRequestResponse(response, "log")

\* dump_batch_logs: the while test, and get_batch_logs up to the request
LoopTest ==
    /\ op = "dump_batch_logs"
    /\ pc = "loop"
    /\ log_lines = <<>>
    /\ IF LoopContinues(log_start_line, log_total_lines)
       THEN GetBatchLogsEnter(session_id, log_start_line, log_batch_size)
       ELSE /\ pc' = "done"
            /\ outcome' = Returned(None)
            /\ UNCHANGED <<hookVars, session_id, verb, retry_args, back_method, requests>>
    /\ UNCHANGED <<dumpVars, op, kwargs, last_response, entry_method, entry_options>>

\* dump_batch_logs: one "self.log.info(log_line)"
ForwardLine ==
    /\ op = "dump_batch_logs"
    /\ pc = "loop"
    /\ log_lines # <<>>
    /\ sink' = Append(sink, Head(log_lines))
    /\ log_lines' = Tail(log_lines)
    /\ UNCHANGED <<hookVars, op, pc, session_id, kwargs, verb, retry_args, back_method,
                   outcome, requests, last_response, entry_method, entry_options,
                   log_start_line, log_total_lines, pages>>

\* BatchState(value)
BatchStateOf(value) == IF value \in BatchStates THEN Returned(value) ELSE Raised("ValueError")

\* The mutant of PostBatchResult: the id is tested for truth, not for None.
PostBatchResultFalsyId(response) ==
    IF IsHttpError(response) THEN Raised("AirflowException: Could not submit batch")
    ELSE IF ~Truthy(DictGet(response.body, "id"))
         THEN Raised("AirflowException: Unable to parse the batch session id")
         ELSE Returned(DictGet(response.body, "id"))

\* post_batch after the request
PostBatchResult(response) ==
    IF IsHttpError(response) THEN Raised("AirflowException: Could not submit batch")
    ELSE IF DictGet(response.body, "id").t = "none"
         THEN Raised("AirflowException: Unable to parse the batch session id")
         ELSE Returned(DictGet(response.body, "id"))

\* get_batch after the request
GetBatchResult(response) ==
    IF IsHttpError(response) THEN Raised("AirflowException: Unable to fetch batch")
    ELSE Returned(response.body)

\* The mutant of GetBatchStateResult: the body is read before the status.
GetBatchStateResultBodyFirst(response) ==
    IF "state" \notin DOMAIN response.body
    THEN Raised("AirflowException: Unable to get state for batch")
    ELSE IF response.body["state"] \notin BatchStates THEN Raised("ValueError")
    ELSE IF IsHttpError(response) THEN Raised("AirflowException: Unable to fetch batch")
    ELSE Returned(response.body["state"])

\* get_batch_state after the request
GetBatchStateResult(response) ==
    IF IsHttpError(response) THEN Raised("AirflowException: Unable to fetch batch")
    ELSE IF "state" \notin DOMAIN response.body
         THEN Raised("AirflowException: Unable to get state for batch")
         ELSE BatchStateOf(response.body["state"])

\* delete_batch after the request
DeleteBatchResult(response) ==
    IF IsHttpError(response) THEN Raised("AirflowException: Could not kill the batch")
    ELSE Returned(response.body)

\* get_batch_logs after the request
GetBatchLogsResult(response) ==
    IF IsHttpError(response) THEN Raised("AirflowException: Could not fetch the logs")
    ELSE Returned(response.body)

ResultOf(o, response) ==
    CASE o = "run_method" -> Returned(response)
      [] o = "post_batch" -> PostBatchResult(response)
      [] o = "get_batch" -> GetBatchResult(response)
      [] o = "get_batch_state" -> GetBatchStateResult(response)
      [] o = "delete_batch" -> DeleteBatchResult(response)
      [] o \in {"get_batch_logs", "dump_batch_logs"} -> GetBatchLogsResult(response)

\* The "from" of the request in progress
CurrentFrom ==
    IF op \in {"get_batch_logs", "dump_batch_logs"}
    THEN requests[Len(requests)].data.from
    ELSE 0

\* run_with_advanced_retry issues the request again
Retry ==
    /\ pc = "request"
    /\ retry_args
    /\ Len(requests) < MaxAttempts
    /\ requests' = Append(requests, requests[Len(requests)])
    /\ UNCHANGED <<hookVars, dumpVars, op, pc, session_id, kwargs, verb, retry_args,
                   back_method, outcome, last_response, entry_method, entry_options>>

\* The underlying request raises; run_method's finally clause runs and the
\* exception leaves the call
TransportRaises ==
    /\ pc = "request"
    /\ method' = MethodAfterRun(back_method, method, TRUE)
    /\ outcome' = Raised("TransportError")
    /\ pc' = "done"
    /\ UNCHANGED <<dumpVars, extra_options, op, session_id, kwargs, verb, retry_args,
                   back_method, requests, last_response, entry_method, entry_options>>

\* The underlying request returns a response; run_method restores the method
\* and returns, and the caller goes on to its end (dump_batch_logs: to its
\* for loop)
Respond ==
    /\ pc = "request"
    /\ \E status \in Statuses, body \in Bodies(op, CurrentFrom) :
        LET response == [status |-> status, body |-> body]
            result == ResultOf(op, response)
        IN /\ method' = MethodAfterRun(back_method, method, FALSE)
           /\ last_response' = response
           /\ IF op = "dump_batch_logs" /\ result.kind = "return"
              THEN /\ log_total_lines' = ParseRequestResponse(result.value, "total")
                   /\ log_start_line' = NextStartLine(log_start_line)
                   /\ log_lines' = PageLines(result.value)
                   /\ pages' = Append(pages, result.value)
                   /\ pc' = "loop"
                   /\ UNCHANGED <<outcome, sink>>
              ELSE /\ outcome' = result
                   /\ pc' = "done"
                   /\ UNCHANGED dumpVars
    /\ UNCHANGED <<extra_options, op, session_id, kwargs, verb, retry_args, back_method,
                   requests, entry_method, entry_options>>

\* The call is over and the caller has its result: the hook is idle again
Return ==
    /\ pc = "done"
    /\ op' = "none"
    /\ pc' = "idle"
    /\ session_id' = None
    /\ kwargs' = NoKwargs
    /\ verb' = "GET"
    /\ retry_args' = FALSE
    /\ back_method' = method
    /\ outcome' = NoOutcome
    /\ requests' = <<>>
    /\ last_response' = NoResponse
    /\ entry_method' = method
    /\ entry_options' = extra_options
    /\ log_start_line' = 0
    /\ log_total_lines' = 0
    /\ log_lines' = <<>>
    /\ sink' = <<>>
    /\ pages' = <<>>
    /\ UNCHANGED hookVars

(***************************************************************************)
(* Spec: the single-request operations on a hook whose method and          *)
(* extra_options are whatever the caller set.                              *)
(***************************************************************************)
Init == InitWith({None}, {NoKwargs}, {"GET", "POST"}, OptionSets)

Next ==
    \/ CallRunMethod
    \/ CallPostBatch
    \/ CallGetBatch
    \/ CallGetBatchState
    \/ CallDeleteBatch
    \/ CallGetBatchLogs
    \/ Retry
    \/ TransportRaises
    \/ Respond
    \/ Return

Spec == Init /\ [][Next]_vars

(***************************************************************************)
(* SpecLogs: the operations taking a session id, dump_batch_logs among     *)
(* them, on a hook as __init__ leaves it.                                  *)
(***************************************************************************)
InitLogs == InitWith({None}, {NoKwargs}, {"POST"}, {EmptyDict})

Step ==
    \/ LoopTest
    \/ ForwardLine
    \/ Retry
    \/ TransportRaises
    \/ Respond
    \/ Return

NextLogs ==
    \/ CallGetBatch
    \/ CallGetBatchState
    \/ CallDeleteBatch
    \/ CallGetBatchLogs
    \/ CallDumpBatchLogs
    \/ Step

SpecLogs == InitLogs /\ [][NextLogs]_vars

\* A call in progress goes on; the transport answers every request
FairSpecLogs == SpecLogs /\ WF_vars(Step)


(***************************************************************************)
(* The claims.                                                             *)
(***************************************************************************)
Dumping == op = "dump_batch_logs" /\ ValidateSessionId(session_id) = "ok"
Finished == pc = "done" /\ outcome.kind = "return"
LogRequest(id, from) ==
    [method |-> "GET",
     endpoint |-> [path |-> "/batches/{session_id}/log", id |-> id],
     data |-> [from |-> from, size |-> 100]]

\* C1: dump_batch_logs asks for pages of 100 lines at offsets 0, 100, 200, ...
\* in that order; the page at offset 0 is always asked for; the page at offset
\* k*100 (k >= 1) is asked for only if k*100 <= the total of the page before
\* it, and the loop ends only when the next offset exceeds the total of the
\* last page; so under a constant total T it fetches T \div 100 + 1 pages.
C1_PagesFollowLatestTotal ==
    Dumping =>
        /\ \A k \in 1..Len(requests) :
              requests[k] = LogRequest(session_id, (k - 1) * 100)
        /\ \A k \in 2..Len(requests) :
              Len(pages) >= k - 1 /\ (k - 1) * 100 <= pages[k - 1].total
        /\ pc = "done" => Len(requests) >= 1
        /\ Finished =>
              /\ Len(pages) = Len(requests)
              /\ pages[Len(pages)].total < Len(pages) * 100
        /\ \A T \in Totals :
              (Finished /\ \A k \in 1..Len(pages) : pages[k].total = T) =>
                  Len(requests) = (T \div 100) + 1

\* C1's case: the server reported 250 three times and the dump ended after
\* offsets 0, 100, 200
C1_Witness ==
    /\ Dumping
    /\ Finished
    /\ Len(requests) = 3
    /\ \A k \in 1..Len(pages) : pages[k].total = 250

RECURSIVE ConcatLogs(_)
ConcatLogs(ps) == IF ps = <<>> THEN <<>> ELSE Head(ps).log \o ConcatLogs(Tail(ps))

C3_MethodRestored ==
    /\ pc # "request" => method = entry_method
    /\ pc = "request" => method = verb /\ back_method = entry_method

\* C3's case: run_method overrode the verb and the underlying request raised
C3_Witness ==
    /\ op = "run_method"
    /\ pc = "done"
    /\ outcome = Raised("TransportError")
    /\ verb # entry_method

\* C4 as claimed: after a call, self.method and self.extra_options are what
\* they were before it.
C4_AllSharedStateRestored ==
    pc = "done" => method = entry_method /\ extra_options = entry_options

\* C4 amended: after a call, self.method is what it was before it;
\* self.extra_options is what it was before it when it was not empty or when
\* the call never reached the request, and is {"check_response": False} when
\* it was empty and the request went out.
C4_RestoredButForDefaultedOptions ==
    pc = "done" =>
        /\ method = entry_method
        /\ extra_options =
              IF DOMAIN entry_options = {} /\ requests # <<>>
              THEN "check_response" :> FALSE
              ELSE entry_options

\* C4's case: run_method was called with extra_options empty and failed
C4_Witness ==
    /\ op = "run_method"
    /\ pc = "done"
    /\ outcome = Raised("TransportError")
    /\ DOMAIN entry_options = {}
    /\ DOMAIN extra_options # {}

SessionOps ==
    {"get_batch", "get_batch_state", "delete_batch", "get_batch_logs", "dump_batch_logs"}

\* C5: a session operation called with an id that fails validation issues no
\* request and ends with the validation's error, and every request to a
\* /batches/{session_id}... path carries the id of the call, which passed
\* validation.
C5_IdValidatedBeforeRequest ==
    /\ (op \in SessionOps /\ ValidateSessionId(session_id) # "ok") =>
          /\ requests = <<>>
          /\ pc = "done" => outcome = Raised("TypeError")
    /\ \A k \in 1..Len(requests) :
          "id" \in DOMAIN requests[k].endpoint =>
              /\ requests[k].endpoint.id = session_id
              /\ ValidateSessionId(requests[k].endpoint.id) = "ok"

\* C5's case: dump_batch_logs was called with an id that fails validation
C5_Witness ==
    /\ op = "dump_batch_logs"
    /\ pc = "done"
    /\ ValidateSessionId(session_id) # "ok"
    /\ requests = <<>>

\* C7: get_batch_state asks for GET /batches/{id}/state, and on a response:
\* an HTTP error status raises the fetch error; else a body without "state"
\* raises the fetch error; else a state outside the ten raises; else the
\* state is returned.
C7_StateResultPrecedence ==
    (op = "get_batch_state" /\ pc = "done" /\ last_response # NoResponse) =>
        /\ \A k \in 1..Len(requests) :
              requests[k] = [method |-> "GET",
                             endpoint |-> [path |-> "/batches/{session_id}/state",
                                           id |-> session_id],
                             data |-> None]
        /\ requests # <<>>
        /\ IF last_response.status >= 400
           THEN outcome = Raised("AirflowException: Unable to fetch batch")
           ELSE IF "state" \notin DOMAIN last_response.body
           THEN outcome = Raised("AirflowException: Unable to get state for batch")
           ELSE IF last_response.body["state"] \notin
                     {"not_started", "starting", "running", "idle", "busy",
                      "shutting_down", "error", "dead", "killed", "success"}
           THEN outcome.kind = "raise"
           ELSE outcome = Returned(last_response.body["state"])

\* C7's case: an error status came with a body whose state is not recognized
C7_Witness ==
    /\ op = "get_batch_state"
    /\ pc = "done"
    /\ last_response.status >= 400
    /\ "state" \in DOMAIN last_response.body
    /\ last_response.body["state"] = "bogus"

\* C8: post_batch issues one POST /batches once the payload is built, and no
\* other request; it returns only on a response that is no HTTP error and
\* holds an id, and then returns that id (0 included); on an HTTP error
\* status or a body without id it raises the submission error.
C8_PostReturnsTheId ==
    (op = "post_batch" /\ pc = "done") =>
        /\ Len(requests) = IF outcome = Raised("ValueError") THEN 0 ELSE 1
        /\ \A k \in 1..Len(requests) :
              /\ requests[k].method = "POST"
              /\ requests[k].endpoint = [path |-> "/batches"]
        /\ outcome.kind = "return" =>
              /\ last_response.status < 400
              /\ last_response # NoResponse
              /\ "id" \in DOMAIN last_response.body
              /\ outcome.value = last_response.body["id"]
        /\ (last_response # NoResponse /\ last_response.status >= 400) =>
              outcome = Raised("AirflowException: Could not submit batch")
        /\ (last_response # NoResponse /\ last_response.status < 400
                /\ "id" \notin DOMAIN last_response.body) =>
              outcome = Raised("AirflowException: Unable to parse the batch session id")
        /\ (last_response # NoResponse /\ last_response.status < 400
                /\ "id" \in DOMAIN last_response.body
                /\ last_response.body["id"].t = "int") =>
              outcome = Returned(last_response.body["id"])

\* C8's case: the server answered with id 0 and post_batch returned 0
C8_Witness ==
    /\ op = "post_batch"
    /\ pc = "done"
    /\ last_response.status = 200
    /\ outcome = Returned(PyInt(0))

RECURSIVE MaxTotal(_)
MaxTotal(ps) ==
    IF ps = <<>> THEN 0
    ELSE IF Head(ps).total > MaxTotal(Tail(ps)) THEN Head(ps).total ELSE MaxTotal(Tail(ps))

\* C10: dump_batch_logs never fetches more than B \div 100 + 1 pages, B the
\* largest total the pages reported; at the loop test it goes on to the next
\* request whenever the start offset is at most the latest total; and every
\* dump comes to an end, the totals of the model being bounded.
C10_BoundedTotalsTerminate ==
    /\ [](Dumping => Len(requests) <= (MaxTotal(pages) \div 100) + 1)
    /\ [][(Dumping /\ pc = "loop" /\ log_lines = <<>>
              /\ log_start_line <= log_total_lines) => pc' = "request"]_vars
    /\ (op = "dump_batch_logs") ~> (op = "dump_batch_logs" /\ pc = "done")

\* C10's case: a dump ended having fetched as many pages as the bound allows
C10_Witness ==
    /\ Dumping
    /\ Finished
    /\ Len(requests) >= 3
    /\ Len(requests) = (MaxTotal(pages) \div 100) + 1

============================================================================
